---- MODULE Spec2Model ----
(***************************************************************************)
(* A model of the polling file watcher of xiaoyang-chen/file-watcher       *)
(* (package radovskyb-watcher, watcher.go) and of the constructor that     *)
(* wraps it (package watcher, NewRadovskybwatcherWatcher).                 *)
(*                                                                         *)
(* Paths are sequences of one-character strings, "/" being the separator,  *)
(* so that filepath.Dir, filepath.Base and strings.HasPrefix are computed  *)
(* on the characters as the Go code computes them.  A snapshot             *)
(* (map[string]os.FileInfo) is a function whose domain is a set of paths.  *)
(* An os.FileInfo is a record [ino, size, mtime, mode, dir].               *)
(***************************************************************************)
EXTENDS Integers, Sequences, FiniteSets, TLC

VARIABLES
    \* the file system the watcher polls, and how many changes it has seen
    fs, fsOps,
    \* the fields of Watcher (watcher.go:115-131)
    running, names, files, ignored, ops, maxEvents, ignoreHidden, ffh,
    wg, closedCh, mu,
    \* the paths of the Ignore calls that are between their two critical
    \* sections
    ignoring,
    \* the callers of Start and Close, what Start returned and the duration
    \* it was called with
    startPc, startErr, startD, closePc,
    \* the locals of Start's polling loop and of retrieveFileList
    fileList, numEvents, cancelClosed, event, rTodo, rErr,
    \* the per-cycle goroutine running pollEvents
    pollPc, pTodo, creates, removes, pend, ren,
    \* the constructor NewRadovskybwatcherWatcher
    ctorPc, ctorErr, errChanStart,
    \* the caller of TriggerEvent: its place, its arguments and what the
    \* consumer received from it
    trig,
    \* history: what passed the op filter and what was delivered this cycle,
    \* the events received from evt this cycle, whether the cap ended it,
    \* whether a setter ran during the cycle, whether the process panicked
    passed, fwd, out, capHit, cfgChanged, panicked

vars == <<fs, fsOps, running, names, files, ignored, ops, maxEvents,
          ignoreHidden, ffh, ignoring, wg, closedCh, mu, startPc, startErr, startD, closePc,
          fileList, numEvents, cancelClosed, event, rTodo, rErr,
          pollPc, pTodo, creates, removes, pend, ren,
          ctorPc, ctorErr, errChanStart, trig,
          passed, fwd, out, capHit, cfgChanged, panicked>>

fsVars == <<fs, fsOps>>
cfgVars == <<ignored, ops, maxEvents, ignoreHidden, ffh, ignoring>>
callVars == <<startPc, startErr, startD, closePc>>
loopVars == <<fileList, numEvents, cancelClosed, event, rTodo, rErr>>
pollVars == <<pollPc, pTodo, creates, removes, pend, ren>>
ctorVars == <<ctorPc, ctorErr, errChanStart>>
trigVars == <<trig>>
histVars == <<passed, fwd, out, capHit, cfgChanged>>

-----------------------------------------------------------------------------
(* Bounds of the model.                                                    *)

\* number of file system changes the environment makes in one behaviour
MaxFsOps == 2
\* the inode numbers of the snapshots given to a stand-alone diff are
\* 1..MaxIno
MaxIno == 2
\* the inode numbers of the file system are 1..MaxFsIno
MaxFsIno == 3
\* file sizes are 0..MaxSize
MaxSize == 1
\* number of filter hooks added in one behaviour
MaxHooks == 1

-----------------------------------------------------------------------------
(* Paths.                                                                  *)

Sep == "/"
P_a == <<"/", "a">>
P_ax == <<"/", "a", "/", "x">>
P_ay == <<"/", "a", "/", "y">>
P_b == <<"/", "b">>
P_bx == <<"/", "b", "/", "x">>
P_ad == <<"/", "a", "/", "d">>
P_adz == <<"/", "a", "/", "d", "/", "z">>
P_adc == <<"/", "a", "/", "d", "c">>
P_ah == <<"/", "a", "/", ".", "h">>
EmptyPath == <<>>

\* the last index of "/" in p, 0 when there is none
LastSep(p) ==
    LET idx == {i \in 1..Len(p) : p[i] = Sep}
    IN  IF idx = {} THEN 0 ELSE CHOOSE i \in idx : \A j \in idx : j <= i

\* filepath.Dir on a clean absolute path: all but the last element
Dir(p) ==
    LET i == LastSep(p)
    IN  IF i <= 1 THEN <<Sep>> ELSE SubSeq(p, 1, i - 1)

\* filepath.Base on a clean absolute path: the last element
Base(p) == SubSeq(p, LastSep(p) + 1, Len(p))

\* strings.HasPrefix(s, prefix)
HasPrefix(s, prefix) ==
    /\ Len(prefix) <= Len(s)
    /\ SubSeq(s, 1, Len(prefix)) = prefix

-----------------------------------------------------------------------------
(* Maps.                                                                   *)

EmptyMap == <<>>

\* for k, v := range src { dst[k] = v }
Merge(dst, src) ==
    [k \in (DOMAIN dst) \cup (DOMAIN src) |->
        IF k \in DOMAIN src THEN src[k] ELSE dst[k]]

\* m[k] = v
MapPut(m, k, v) == [x \in (DOMAIN m) \cup {k} |-> IF x = k THEN v ELSE m[x]]

\* delete(m, k) for every k of ks
MapDel(m, ks) == [x \in (DOMAIN m) \ ks |-> m[x]]

-----------------------------------------------------------------------------
(* Ops and events.                                                         *)

Create == "CREATE"
Write == "WRITE"
Remove == "REMOVE"
Rename == "RENAME"
Chmod == "CHMOD"
Move == "MOVE"
Ops == {Create, Write, Remove, Rename, Chmod, Move}

\* Event{Op, Path, OldPath, FileInfo}
Event(op, path, oldPath, info) ==
    [op |-> op, path |-> path, oldPath |-> oldPath, info |-> info]


\* the os.FileInfo values of the model
Infos ==
    [ino : 1..MaxIno, size : 0..MaxSize, mtime : {0, 1}, mode : {0, 1},
     dir : BOOLEAN]

\* sameFile(fi1, fi2): the two records are the same underlying file, judged
\* by the identity the operating system gives (device and inode)
sameFile(fi1, fi2) == fi1.ino = fi2.ino

-----------------------------------------------------------------------------
(* Listing the file system (watcher.go:234-346).                           *)

\* isHiddenFile(path), on a non-Windows build: the base name starts with "."
isHiddenFile(path) == Len(Base(path)) > 0 /\ Base(path)[1] = "."

\* the test of watcher.go:217, 271 and 324
IgnoredOrHidden(path) ==
    path \in ignored \/ (isHiddenFile(path) /\ ignoreHidden)

\* a filter hook is the set of paths it answers ErrSkip for (nil otherwise);
\* the loops over w.ffh of watcher.go:274-283 and 331-340
HookSkips(path) == \E i \in 1..Len(ffh) : path \in ffh[i]

\* os.ReadDir(name): the entries of directory name
Children(name) == {p \in DOMAIN fs : p # name /\ Dir(p) = name}

\* w.list(name): name itself and, for a directory, its direct entries that
\* are neither ignored, hidden-and-ignored nor vetoed by a hook
list(name) ==
    IF name \notin DOMAIN fs
    THEN [err |-> "notexist", list |-> EmptyMap]
    ELSE IF ~fs[name].dir
    THEN [err |-> "nil", list |-> [p \in {name} |-> fs[p]]]
    ELSE LET kept == {p \in Children(name) :
                         ~IgnoredOrHidden(p) /\ ~HookSkips(p)}
         IN  [err |-> "nil", list |-> [p \in {name} \cup kept |-> fs[p]]]

\* the walk function of listRecursive under filepath.Walk: an ignored (or
\* hidden-and-ignored) directory is not descended into (filepath.SkipDir), an
\* ignored file is left out, an entry a hook vetoes is left out but, being
\* answered with a nil error, is still descended into
RECURSIVE WalkSet(_)
WalkSet(path) ==
    IF IgnoredOrHidden(path)
    THEN {}
    ELSE (IF HookSkips(path) THEN {} ELSE {path})
         \cup (IF fs[path].dir
               THEN UNION {WalkSet(c) : c \in Children(path)}
               ELSE {})

\* w.listRecursive(name)
listRecursive(name) ==
    IF name \notin DOMAIN fs
    THEN [err |-> "notexist", list |-> EmptyMap]
    ELSE [err |-> "nil", list |-> [p \in WalkSet(name) |-> fs[p]]]

-----------------------------------------------------------------------------
(* pollEvents (watcher.go:599-679), the goroutine of one cycle.            *)
(*                                                                         *)
(* pollPc is the goroutine's place: "none" (no goroutine), "removes" (the  *)
(* pass over WatchedFiles is next), "run" (the passes that follow), "done" *)
(* (pollEvents returned, the goroutine is sending on done), "exited", and  *)
(* "leaked" (left behind by a later cycle).  Within "run" the passes come  *)
(* in the order of the code: the range over the fresh list while pTodo     *)
(* holds a path, then the pairing of renames while a pair is left, then    *)
(* the range over creates, then the range over removes; the two last       *)
(* ranges take each visited path out of creates and removes.  A non-empty  *)
(* pend means the goroutine is blocked in a select that sends Head(pend)   *)
(* on evt: the send is taken by whoever receives from evt.  The maps of Go *)
(* are ranged over in any order, which is the choice of path below.        *)

\* watcher.go:607-611: a removed path is one of the stored snapshot that the
\* fresh list does not hold
PollRemovesOf(stored, fresh) ==
    [p \in (DOMAIN stored) \ (DOMAIN fresh) |-> stored[p]]

\* watcher.go:607-611; WatchedFiles copies w.files under the mutex
PollRemoves ==
    /\ pollPc = "removes"
    /\ mu = "free"
    /\ ~panicked
    /\ removes' = PollRemovesOf(files, fileList)
    /\ creates' = EmptyMap
    /\ pTodo' = DOMAIN fileList
    /\ pollPc' = "run"
    /\ UNCHANGED <<pend, ren>>
    /\ UNCHANGED <<fsVars, running, names, files, cfgVars, wg, closedCh, mu,
                   callVars, loopVars, ctorVars, trigVars, histVars, panicked>>

\* WriteChmodEvents with the size test of the create pass (size > 0) in place
\* of the comparison of the two sizes
WriteChmodEvents_SizeTest(path, oldInfo, info) ==
    (IF oldInfo.mtime # info.mtime \/ info.size > 0
     THEN <<Event(Write, path, path, info)>> ELSE <<>>)
    \o (IF oldInfo.mode # info.mode
        THEN <<Event(Chmod, path, path, info)>> ELSE <<>>)

\* WriteChmodEvents with the mode compared only when no Write is sent
WriteChmodEvents_OneOfTwo(path, oldInfo, info) ==
    IF oldInfo.mtime # info.mtime \/ oldInfo.size # info.size
    THEN <<Event(Write, path, path, info)>>
    ELSE IF oldInfo.mode # info.mode
    THEN <<Event(Chmod, path, path, info)>>
    ELSE <<>>

\* watcher.go:621-634: the events of a path that both snapshots hold
WriteChmodEvents(path, oldInfo, info) ==
    (IF oldInfo.mtime # info.mtime \/ oldInfo.size # info.size
     THEN <<Event(Write, path, path, info)>> ELSE <<>>)
    \o (IF oldInfo.mode # info.mode
        THEN <<Event(Chmod, path, path, info)>> ELSE <<>>)

\* watcher.go:614-635, one iteration: GetWatchedFileInfoByPath reads the
\* stored snapshot under the mutex at the time of the iteration
PollVisit(path) ==
    /\ pollPc = "run"
    /\ pend = <<>>
    /\ path \in pTodo
    /\ mu = "free"
    /\ ~panicked
    /\ pTodo' = pTodo \ {path}
    /\ IF path \notin DOMAIN files
       THEN /\ creates' = MapPut(creates, path, fileList[path])
            /\ pend' = <<>>
       ELSE /\ creates' = creates
            /\ pend' = WriteChmodEvents(path, files[path], fileList[path])
    /\ UNCHANGED <<pollPc, removes, ren>>
    /\ UNCHANGED <<fsVars, running, names, files, cfgVars, wg, closedCh, mu,
                   callVars, loopVars, ctorVars, trigVars, histVars, panicked>>

\* RenameEvent without the comparison of the two parent directories
RenameEvent_AlwaysRename(path1, info1, path2) ==
    Event(Rename, path2, path1, info1)

\* watcher.go:640-645: the event of a removed and a created path that are the
\* same file
RenameEvent(path1, info1, path2) ==
    Event(IF Dir(path1) = Dir(path2) THEN Rename ELSE Move, path2, path1, info1)

\* the created paths the inner range of watcher.go:638 still pairs with the
\* path1 of ren: after a match the inner range goes on with the same path1
\* and info1, although path1 is deleted from removes
RenInnerLeft ==
    IF ren = <<>> THEN {}
    ELSE {p2 \in DOMAIN creates : sameFile(ren[1].info, creates[p2])}

\* the pairs a later iteration of the outer range of watcher.go:637 finds
RenOuterLeft ==
    {pp \in (DOMAIN removes) \X (DOMAIN creates) :
        sameFile(removes[pp[1]], creates[pp[2]])}

\* watcher.go:637-655, one iteration of the inner range that finds the same
\* file: of the running inner range when it has a match left, of a new outer
\* iteration otherwise.  An iteration that matches nothing changes nothing
\* and is not a step of its own.
PollRename(path1, path2) ==
    /\ pollPc = "run"
    /\ pend = <<>>
    /\ pTodo = {}
    /\ ~panicked
    /\ IF RenInnerLeft # {}
       THEN /\ path1 = ren[1].path
            /\ path2 \in RenInnerLeft
            /\ UNCHANGED <<ren, removes>>
            /\ pend' = <<RenameEvent(path1, ren[1].info, path2)>>
       ELSE /\ <<path1, path2>> \in RenOuterLeft
            /\ ren' = <<[path |-> path1, info |-> removes[path1]]>>
            /\ removes' = MapDel(removes, {path1})
            /\ pend' = <<RenameEvent(path1, removes[path1], path2)>>
    /\ creates' = MapDel(creates, {path2})
    /\ UNCHANGED <<pollPc, pTodo>>
    /\ UNCHANGED <<fsVars, running, names, files, cfgVars, wg, closedCh, mu,
                   callVars, loopVars, ctorVars, trigVars, histVars, panicked>>

\* PairingOver without waiting for the end of the range over the fresh list
PairingOver_Early ==
    /\ pollPc = "run"
    /\ pend = <<>>
    /\ RenInnerLeft = {}
    /\ RenOuterLeft = {}

\* the two first passes are over
PairingOver ==
    /\ pollPc = "run"
    /\ pend = <<>>
    /\ pTodo = {}
    /\ RenInnerLeft = {}
    /\ RenOuterLeft = {}

\* CreateEvents with the Write sent before the Create
CreateEvents_WriteFirst(path, info) ==
    (IF info.size > 0 THEN <<Event(Write, path, EmptyPath, info)>> ELSE <<>>)
    \o <<Event(Create, path, EmptyPath, info)>>

\* CreateEvents without the Write of a created path of positive size
CreateEvents_NoWrite(path, info) == <<Event(Create, path, EmptyPath, info)>>

\* watcher.go:658-670: Create, and Write as well when the size is positive
CreateEvents(path, info) ==
    <<Event(Create, path, EmptyPath, info)>>
    \o (IF info.size > 0 THEN <<Event(Write, path, EmptyPath, info)>> ELSE <<>>)

\* watcher.go:657-671, one iteration of the range over creates
PollCreate(path) ==
    /\ PairingOver
    /\ path \in DOMAIN creates
    /\ ~panicked
    /\ creates' = MapDel(creates, {path})
    /\ pend' = CreateEvents(path, creates[path])
    /\ ren' = <<>>
    /\ UNCHANGED <<pollPc, pTodo, removes>>
    /\ UNCHANGED <<fsVars, running, names, files, cfgVars, wg, closedCh, mu,
                   callVars, loopVars, ctorVars, trigVars, histVars, panicked>>

\* watcher.go:676
RemoveEvent(path, info) == Event(Remove, path, path, info)

\* watcher.go:672-678, one iteration of the range over removes
PollRemove(path) ==
    /\ PairingOver
    /\ DOMAIN creates = {}
    /\ path \in DOMAIN removes
    /\ ~panicked
    /\ removes' = MapDel(removes, {path})
    /\ pend' = <<RemoveEvent(path, removes[path])>>
    /\ ren' = <<>>
    /\ UNCHANGED <<pollPc, pTodo, creates>>
    /\ UNCHANGED <<fsVars, running, names, files, cfgVars, wg, closedCh, mu,
                   callVars, loopVars, ctorVars, trigVars, histVars, panicked>>

\* watcher.go:679 and 563: pollEvents returns and the goroutine sends on done
PollReturn ==
    /\ PairingOver
    /\ DOMAIN creates = {}
    /\ DOMAIN removes = {}
    /\ ~panicked
    /\ pollPc' = "done"
    /\ ren' = <<>>
    /\ UNCHANGED <<pTodo, creates, removes, pend>>
    /\ UNCHANGED <<fsVars, running, names, files, cfgVars, wg, closedCh, mu,
                   callVars, loopVars, ctorVars, trigVars, histVars, panicked>>

\* the case <-cancel of every select of pollEvents: the goroutine is blocked
\* sending an event, cancel is closed, pollEvents returns
PollCancel ==
    /\ pollPc = "run"
    /\ pend # <<>>
    /\ cancelClosed
    /\ ~panicked
    /\ pollPc' = "done"
    /\ pend' = <<>>
    /\ pTodo' = {}
    /\ creates' = EmptyMap
    /\ removes' = EmptyMap
    /\ ren' = <<>>
    /\ UNCHANGED <<fsVars, running, names, files, cfgVars, wg, closedCh, mu,
                   callVars, loopVars, ctorVars, trigVars, histVars, panicked>>

\* every path of the model
AllPaths == {P_a, P_ax, P_ay, P_b, P_bx, P_ad, P_adz, P_ah}

\* the steps pollEvents takes on its own
PollStep ==
    \/ PollRemoves
    \/ \E path \in AllPaths : PollVisit(path)
    \/ \E path1 \in AllPaths : \E path2 \in AllPaths : PollRename(path1, path2)
    \/ \E path \in AllPaths : PollCreate(path)
    \/ \E path \in AllPaths : PollRemove(path)
    \/ PollReturn

-----------------------------------------------------------------------------
(* The watch set: Add, remove, removeRecursive and the setters.            *)

\* remove (watcher.go:358-381) on w.files: nothing when name is not stored;
\* else name goes and, when it is a directory, every stored path whose
\* filepath.Dir is name
removeFiles(fl, name) ==
    IF name \notin DOMAIN fl
    THEN fl
    ELSE IF ~fl[name].dir
    THEN MapDel(fl, {name})
    ELSE MapDel(fl, {name} \cup {p \in DOMAIN fl : Dir(p) = name})

\* removeRecursive (watcher.go:393-416) on w.files: as remove, with
\* strings.HasPrefix(path, name) for the directory's contents
removeRecursiveFiles(fl, name) ==
    IF name \notin DOMAIN fl
    THEN fl
    ELSE IF ~fl[name].dir
    THEN MapDel(fl, {name})
    ELSE MapDel(fl, {name} \cup {p \in DOMAIN fl : HasPrefix(p, name)})

\* Add (watcher.go:203-231), all of it under the mutex
Add(name) ==
    /\ mu = "free"
    /\ ~panicked
    /\ IF IgnoredOrHidden(name) \/ list(name).err # "nil"
       THEN UNCHANGED <<files, names>>
       ELSE /\ files' = Merge(files, list(name).list)
            /\ names' = MapPut(names, name, FALSE)
    /\ UNCHANGED <<fsVars, running, cfgVars, wg, closedCh, mu, callVars,
                   loopVars, pollVars, ctorVars, trigVars, histVars, panicked>>

\* the goroutine of a canceled cycle is still in its range over the fresh
\* list (watcher.go:614) and the loop has installed that very map as w.files
\* (watcher.go:592); the loop makes its next map in retrieveFileList
MapShared ==
    /\ pollPc = "run"
    /\ pTodo # {}
    /\ \E s \in DOMAIN startPc : startPc[s] = "retrieve"

\* Add while MapShared: the writes of watcher.go:225-227 go, under the
\* mutex, into the map the goroutine ranges over without it.  The race has
\* no defined outcome: the runtime may stop the process ("concurrent map
\* iteration and map write"), or Add completes and the range may or may not
\* come to produce each of the new keys; files and fileList are the one map
AddShared(name) ==
    /\ MapShared
    /\ mu = "free"
    /\ ~panicked
    /\ ~IgnoredOrHidden(name)
    /\ list(name).err = "nil"
    /\ \/ /\ panicked' = TRUE
          /\ UNCHANGED <<files, fileList, names, pTodo>>
       \/ /\ panicked' = panicked
          /\ files' = Merge(files, list(name).list)
          /\ fileList' = Merge(fileList, list(name).list)
          /\ names' = MapPut(names, name, FALSE)
          /\ \E seen \in SUBSET ((DOMAIN list(name).list) \ (DOMAIN files)) :
                 pTodo' = pTodo \cup seen
    /\ UNCHANGED <<numEvents, cancelClosed, event, rTodo, rErr>>
    /\ UNCHANGED <<pollPc, creates, removes, pend, ren>>
    /\ UNCHANGED <<fsVars, running, cfgVars, wg, closedCh, mu, callVars,
                   ctorVars, trigVars, histVars>>

\* AddRecursive (watcher.go:290-308), all of it under the mutex: the name is
\* not tested against the ignore list, only the walk of listRecursive is
AddRecursive(name) ==
    /\ mu = "free"
    /\ ~panicked
    /\ IF listRecursive(name).err # "nil"
       THEN UNCHANGED <<files, names>>
       ELSE /\ files' = Merge(files, listRecursive(name).list)
            /\ names' = MapPut(names, name, TRUE)
    /\ UNCHANGED <<fsVars, running, cfgVars, wg, closedCh, mu, callVars,
                   loopVars, pollVars, ctorVars, trigVars, histVars, panicked>>

\* Remove (watcher.go:349-381), under the mutex
Remove_(name) ==
    /\ mu = "free"
    /\ ~panicked
    /\ names' = MapDel(names, {name})
    /\ files' = removeFiles(files, name)
    /\ UNCHANGED <<fsVars, running, cfgVars, wg, closedCh, mu, callVars,
                   loopVars, pollVars, ctorVars, trigVars, histVars, panicked>>

\* RemoveRecursive (watcher.go:384-416), under the mutex
RemoveRecursive(name) ==
    /\ mu = "free"
    /\ ~panicked
    /\ names' = MapDel(names, {name})
    /\ files' = removeRecursiveFiles(files, name)
    /\ UNCHANGED <<fsVars, running, cfgVars, wg, closedCh, mu, callVars,
                   loopVars, pollVars, ctorVars, trigVars, histVars, panicked>>

\* Ignore (watcher.go:420-435) of one path, first critical section:
\* w.RemoveRecursive(path)
IgnoreRemove(path) ==
    /\ mu = "free"
    /\ ~panicked
    /\ path \notin ignoring
    /\ names' = MapDel(names, {path})
    /\ files' = removeRecursiveFiles(files, path)
    /\ ignoring' = ignoring \cup {path}
    /\ UNCHANGED <<ignored, ops, maxEvents, ignoreHidden, ffh>>
    /\ UNCHANGED <<fsVars, running, wg, closedCh, mu, callVars,
                   loopVars, pollVars, ctorVars, trigVars, histVars, panicked>>

\* Ignore, second critical section: w.ignored[path] = struct{}{}, and the
\* return
IgnoreMark(path) ==
    /\ mu = "free"
    /\ ~panicked
    /\ path \in ignoring
    /\ ignored' = ignored \cup {path}
    /\ ignoring' = ignoring \ {path}
    /\ UNCHANGED <<ops, maxEvents, ignoreHidden, ffh>>
    /\ UNCHANGED <<fsVars, running, names, files, wg, closedCh, mu, callVars,
                   loopVars, pollVars, ctorVars, trigVars, histVars, panicked>>

\* AddFilterHook (watcher.go:170-174); the hook answers ErrSkip for the
\* paths of skips
AddFilterHook(skips) ==
    /\ mu = "free"
    /\ ~panicked
    /\ Len(ffh) < MaxHooks
    /\ ffh' = Append(ffh, skips)
    /\ UNCHANGED <<ignored, ops, maxEvents, ignoreHidden, ignoring>>
    /\ UNCHANGED <<fsVars, running, names, files, wg, closedCh, mu, callVars,
                   loopVars, pollVars, ctorVars, trigVars, histVars, panicked>>

\* IgnoreHiddenFiles (watcher.go:178-182)
IgnoreHiddenFiles(ignore) ==
    /\ mu = "free"
    /\ ~panicked
    /\ ignoreHidden' = ignore
    /\ UNCHANGED <<ignored, ops, maxEvents, ffh, ignoring>>
    /\ UNCHANGED <<fsVars, running, names, files, wg, closedCh, mu, callVars,
                   loopVars, pollVars, ctorVars, trigVars, histVars, panicked>>

\* SetMaxEvents (watcher.go:156-160)
SetMaxEvents(delta) ==
    /\ mu = "free"
    /\ ~panicked
    /\ maxEvents' = delta
    /\ cfgChanged' = TRUE
    /\ UNCHANGED <<ignored, ops, ignoreHidden, ffh, ignoring>>
    /\ UNCHANGED <<fsVars, running, names, files, wg, closedCh, mu, callVars,
                   loopVars, pollVars, ctorVars, trigVars, passed, fwd, out, capHit,
                   panicked>>

\* IsGreaterThanMaxEvents with >= in place of >
IsGreaterThanMaxEvents_AtLeast(n) == maxEvents > 0 /\ n >= maxEvents

\* IsGreaterThanMaxEvents (watcher.go:162-167)
IsGreaterThanMaxEvents(n) == maxEvents > 0 /\ n > maxEvents

\* FilterOps (watcher.go:186-193)
FilterOps(opList) ==
    /\ mu = "free"
    /\ ~panicked
    /\ ops' = opList
    /\ cfgChanged' = TRUE
    /\ UNCHANGED <<ignored, maxEvents, ignoreHidden, ffh, ignoring>>
    /\ UNCHANGED <<fsVars, running, names, files, wg, closedCh, mu, callVars,
                   loopVars, pollVars, ctorVars, trigVars, passed, fwd, out, capHit,
                   panicked>>

\* IsOpSkipByFilterOps that skips nothing
IsOpSkipByFilterOps_NoFilter(inOp) == FALSE

\* IsOpSkipByFilterOps (watcher.go:195-200)
IsOpSkipByFilterOps(inOp) == ops # {} /\ inOp \notin ops

-----------------------------------------------------------------------------
(* Start (watcher.go:531-597).                                             *)
(*                                                                         *)
(* startPc[s] is the place of caller s: "idle" (no call yet), "wgDone"     *)
(* (running is set, w.wg.Done() is next), "retrieve" (top of the for       *)
(* loop), "listing" (inside retrieveFileList, holding the mutex), "select" *)
(* (the inner select), "forward" (blocked in w.Event <- event), "swap"     *)
(* (after break inner), "closing" (took the close signal), "returned",     *)
(* "sent" (the result is on errChanStart) and "panic".                     *)

ErrNil == "nil"
ErrDurationTooShort == "ErrDurationTooShort"
ErrWatcherRunning == "ErrWatcherRunning"
ErrWatchedFileDeleted == "ErrWatchedFileDeleted"

LoopPcs == {"retrieve", "listing", "select", "forward", "swap", "closing"}

\* StartCall without the test of running
StartCall_NoRunningTest(s, d) ==
    /\ startPc[s] = "idle"
    /\ ~panicked
    /\ startD' = [startD EXCEPT ![s] = d]
    /\ IF d < 1
       THEN /\ startPc' = [startPc EXCEPT ![s] = "returned"]
            /\ startErr' = [startErr EXCEPT ![s] = ErrDurationTooShort]
            /\ UNCHANGED running
       ELSE /\ mu = "free"
            /\ startPc' = [startPc EXCEPT ![s] = "wgDone"]
            /\ running' = TRUE
            /\ UNCHANGED startErr
    /\ UNCHANGED <<fsVars, names, files, cfgVars, wg, closedCh, mu, closePc,
                   loopVars, pollVars, ctorVars, trigVars, histVars, panicked>>

\* StartCall with running set before the tests instead of after them
StartCall_RunningFirst(s, d) ==
    /\ startPc[s] = "idle"
    /\ ~panicked
    /\ startD' = [startD EXCEPT ![s] = d]
    /\ mu = "free"
    /\ running' = TRUE
    /\ IF d < 1 \/ running
       THEN /\ startPc' = [startPc EXCEPT ![s] = "returned"]
            /\ startErr' = [startErr EXCEPT ![s] =
                   IF d < 1 THEN ErrDurationTooShort ELSE ErrWatcherRunning]
       ELSE /\ startPc' = [startPc EXCEPT ![s] = "wgDone"]
            /\ UNCHANGED startErr
    /\ UNCHANGED <<fsVars, names, files, cfgVars, wg, closedCh, mu, closePc,
                   loopVars, pollVars, ctorVars, trigVars, histVars, panicked>>

\* watcher.go:534-546: the duration test, then the test and the setting of
\* running in one critical section; d is in nanoseconds
StartCall(s, d) ==
    /\ startPc[s] = "idle"
    /\ ~panicked
    /\ startD' = [startD EXCEPT ![s] = d]
    /\ IF d < 1
       THEN /\ startPc' = [startPc EXCEPT ![s] = "returned"]
            /\ startErr' = [startErr EXCEPT ![s] = ErrDurationTooShort]
            /\ UNCHANGED running
       ELSE /\ mu = "free"
            /\ IF running
               THEN /\ startPc' = [startPc EXCEPT ![s] = "returned"]
                    /\ startErr' = [startErr EXCEPT ![s] = ErrWatcherRunning]
                    /\ UNCHANGED running
               ELSE /\ startPc' = [startPc EXCEPT ![s] = "wgDone"]
                    /\ running' = TRUE
                    /\ UNCHANGED startErr
    /\ UNCHANGED <<fsVars, names, files, cfgVars, wg, closedCh, mu, closePc,
                   loopVars, pollVars, ctorVars, trigVars, histVars, panicked>>

\* watcher.go:548: w.wg.Done() subtracts one and panics ("sync: negative
\* WaitGroup counter") when the counter falls below zero
StartWgDone(s) ==
    /\ startPc[s] = "wgDone"
    /\ ~panicked
    /\ wg' = wg - 1
    /\ IF wg - 1 < 0
       THEN /\ panicked' = TRUE
            /\ startPc' = [startPc EXCEPT ![s] = "panic"]
       ELSE /\ panicked' = panicked
            /\ startPc' = [startPc EXCEPT ![s] = "retrieve"]
    /\ UNCHANGED <<fsVars, running, names, files, cfgVars, closedCh, mu,
                   startErr, startD, closePc, loopVars, pollVars, ctorVars, trigVars, histVars>>

\* watcher.go:557 and 489-492: retrieveFileList takes the mutex.  A goroutine
\* of an earlier, canceled cycle that has not come to its end is left behind:
\* it can only read, and ends blocked on its own done channel
LoopRetrieveBegin(s) ==
    /\ startPc[s] = "retrieve"
    /\ mu = "free"
    /\ ~panicked
    /\ mu' = s
    /\ startPc' = [startPc EXCEPT ![s] = "listing"]
    /\ fileList' = EmptyMap
    /\ rTodo' = DOMAIN names
    /\ rErr' = <<>>
    /\ pollPc' = IF pollPc \in {"none", "exited"} THEN pollPc ELSE "leaked"
    /\ pTodo' = {}
    /\ creates' = EmptyMap
    /\ removes' = EmptyMap
    /\ pend' = <<>>
    /\ ren' = <<>>
    /\ UNCHANGED <<numEvents, cancelClosed, event>>
    /\ UNCHANGED <<fsVars, running, names, files, cfgVars, wg, closedCh,
                   startErr, startD, closePc, ctorVars, trigVars, histVars, panicked>>

\* watcher.go:495-525, one iteration of the range over w.names: the root is
\* listed; when it does not exist the loop goes on to send
\* ErrWatchedFileDeleted on w.Error, still holding the mutex
LoopList(s, name) ==
    /\ startPc[s] = "listing"
    /\ rErr = <<>>
    /\ name \in rTodo
    /\ ~panicked
    /\ rTodo' = rTodo \ {name}
    /\ LET r == IF names[name] THEN listRecursive(name) ELSE list(name)
       IN  /\ rErr' = IF r.err = "notexist" THEN <<name>> ELSE <<>>
           /\ fileList' = Merge(fileList, r.list)
    /\ UNCHANGED <<numEvents, cancelClosed, event>>
    /\ UNCHANGED <<fsVars, running, names, files, cfgVars, wg, closedCh, mu,
                   callVars, pollVars, ctorVars, trigVars, histVars, panicked>>

\* LoopErrSent without the call of remove or removeRecursive: the error is
\* sent and the root stays in the watch set
LoopErrSent_KeepRoot(s) ==
    /\ startPc[s] = "listing"
    /\ rErr # <<>>
    /\ ~panicked
    /\ rErr' = <<>>
    /\ UNCHANGED <<files, names>>
    /\ UNCHANGED <<fileList, numEvents, cancelClosed, event, rTodo>>
    /\ UNCHANGED <<fsVars, running, cfgVars, wg, closedCh, mu, callVars,
                   pollVars, ctorVars, trigVars, histVars, panicked>>

\* watcher.go:501-502 and 513-514: the consumer receives the error from
\* w.Error, then the root is removed from the watch set
LoopErrSent(s) ==
    /\ startPc[s] = "listing"
    /\ rErr # <<>>
    /\ ~panicked
    /\ rErr' = <<>>
    /\ LET name == rErr[1]
       IN  /\ files' = IF name \in DOMAIN names /\ names[name]
                       THEN removeRecursiveFiles(files, name)
                       ELSE removeFiles(files, name)
           /\ names' = MapDel(names, {name})
    /\ UNCHANGED <<fileList, numEvents, cancelClosed, event, rTodo>>
    /\ UNCHANGED <<fsVars, running, cfgVars, wg, closedCh, mu, callVars,
                   pollVars, ctorVars, trigVars, histVars, panicked>>

\* watcher.go:526 and 559-566: retrieveFileList returns and gives the mutex
\* back, cancel is made, the goroutine of the cycle is started, numEvents is 0
LoopRetrieveEnd(s) ==
    /\ startPc[s] = "listing"
    /\ rErr = <<>>
    /\ rTodo = {}
    /\ ~panicked
    /\ mu' = "free"
    /\ startPc' = [startPc EXCEPT ![s] = "select"]
    /\ numEvents' = 0
    /\ cancelClosed' = FALSE
    /\ pollPc' = "removes"
    /\ passed' = <<>>
    /\ fwd' = <<>>
    /\ out' = <<>>
    /\ capHit' = FALSE
    /\ cfgChanged' = FALSE
    /\ UNCHANGED <<fileList, event, rTodo, rErr>>
    /\ UNCHANGED <<pTodo, creates, removes, pend, ren>>
    /\ UNCHANGED <<fsVars, running, names, files, cfgVars, wg, closedCh,
                   startErr, startD, closePc, ctorVars, trigVars, panicked>>

\* watcher.go:571-574, the case <-w.close: the receive completes the send of
\* Close caller c, which returns; close(cancel), close(w.Closed) and the
\* return of Start follow in LoopClosing
LoopRecvClose(s, c) ==
    /\ startPc[s] = "select"
    /\ closePc[c] = "send"
    /\ ~panicked
    /\ startPc' = [startPc EXCEPT ![s] = "closing"]
    /\ closePc' = [closePc EXCEPT ![c] = "done"]
    /\ UNCHANGED <<fsVars, running, names, files, cfgVars, wg, closedCh, mu,
                   startErr, startD, loopVars, pollVars, ctorVars, trigVars, histVars, panicked>>

\* watcher.go:572-574: a second close of w.Closed would panic
LoopClosing(s) ==
    /\ startPc[s] = "closing"
    /\ ~panicked
    /\ cancelClosed' = TRUE
    /\ IF closedCh
       THEN /\ panicked' = TRUE
            /\ startPc' = [startPc EXCEPT ![s] = "panic"]
            /\ UNCHANGED <<closedCh, startErr>>
       ELSE /\ closedCh' = TRUE
            /\ startPc' = [startPc EXCEPT ![s] = "returned"]
            /\ startErr' = [startErr EXCEPT ![s] = ErrNil]
            /\ panicked' = panicked
    /\ UNCHANGED <<fileList, numEvents, event, rTodo, rErr, startD>>
    /\ UNCHANGED <<fsVars, running, names, files, cfgVars, wg, mu, closePc,
                   pollVars, ctorVars, trigVars, histVars>>

\* watcher.go:575-584, the case event := <-evt: the event pollEvents is
\* sending is taken; it is dropped when the op filter skips it; else it is
\* counted and either ends the cycle (the count exceeds the cap: cancel is
\* closed) or goes on to be forwarded.  The two reads under the mutex
\* (w.ops, then w.maxEvents) are of different fields and are taken together.
LoopRecvEvt(s) ==
    /\ startPc[s] = "select"
    /\ pollPc = "run"
    /\ pend # <<>>
    /\ mu = "free"
    /\ ~panicked
    /\ pend' = Tail(pend)
    /\ out' = Append(out, Head(pend))
    /\ IF IsOpSkipByFilterOps(Head(pend).op)
       THEN UNCHANGED <<startPc, numEvents, cancelClosed, event, passed, capHit>>
       ELSE /\ numEvents' = numEvents + 1
            /\ passed' = Append(passed, Head(pend))
            /\ IF IsGreaterThanMaxEvents(numEvents + 1)
               THEN /\ cancelClosed' = TRUE
                    /\ capHit' = TRUE
                    /\ startPc' = [startPc EXCEPT ![s] = "swap"]
                    /\ UNCHANGED event
               ELSE /\ event' = <<Head(pend)>>
                    /\ startPc' = [startPc EXCEPT ![s] = "forward"]
                    /\ UNCHANGED <<cancelClosed, capHit>>
    /\ UNCHANGED <<fileList, rTodo, rErr>>
    /\ UNCHANGED <<pollPc, pTodo, creates, removes, ren>>
    /\ UNCHANGED <<fsVars, running, names, files, cfgVars, wg, closedCh, mu,
                   startErr, startD, closePc, ctorVars, trigVars, fwd, cfgChanged, panicked>>

\* watcher.go:584: w.Event <- event is a plain send, outside any select; it
\* completes when the consumer receives from w.Event
LoopForward(s) ==
    /\ startPc[s] = "forward"
    /\ ~panicked
    /\ fwd' = Append(fwd, event[1])
    /\ event' = <<>>
    /\ startPc' = [startPc EXCEPT ![s] = "select"]
    /\ UNCHANGED <<fileList, numEvents, cancelClosed, rTodo, rErr>>
    /\ UNCHANGED <<fsVars, running, names, files, cfgVars, wg, closedCh, mu,
                   startErr, startD, closePc, pollVars, ctorVars, trigVars, passed, out, capHit,
                   cfgChanged, panicked>>

\* watcher.go:585-586, the case <-done: the goroutine of the cycle ends
LoopRecvDone(s) ==
    /\ startPc[s] = "select"
    /\ pollPc = "done"
    /\ ~panicked
    /\ pollPc' = "exited"
    /\ startPc' = [startPc EXCEPT ![s] = "swap"]
    /\ UNCHANGED <<pTodo, creates, removes, pend, ren>>
    /\ UNCHANGED <<fsVars, running, names, files, cfgVars, wg, closedCh, mu,
                   startErr, startD, closePc, loopVars, ctorVars, trigVars, histVars, panicked>>

\* watcher.go:591-595: the fresh list becomes the stored snapshot, under the
\* mutex; the sleep that follows changes nothing
LoopSwap(s) ==
    /\ startPc[s] = "swap"
    /\ mu = "free"
    /\ ~panicked
    /\ files' = fileList
    /\ startPc' = [startPc EXCEPT ![s] = "retrieve"]
    /\ UNCHANGED <<fsVars, running, names, cfgVars, wg, closedCh, mu,
                   startErr, startD, closePc, loopVars, pollVars, ctorVars, trigVars, histVars,
                   panicked>>

-----------------------------------------------------------------------------
(* Close (watcher.go:685-698).                                             *)
(*                                                                         *)
(* closePc[c] is the place of caller c: "idle" (no call yet), "lock" (the  *)
(* call is made, w.mu.Lock() is next), "send" (the watch set is cleared,   *)
(* w.close <- struct{}{} is next), "noop" (returned, the watcher was not   *)
(* running), "done" (returned, the loop took the signal).                  *)

CloseBegin(c) ==
    /\ closePc[c] = "idle"
    /\ ~panicked
    /\ closePc' = [closePc EXCEPT ![c] = "lock"]
    /\ UNCHANGED <<fsVars, running, names, files, cfgVars, wg, closedCh, mu,
                   startPc, startErr, startD, loopVars, pollVars, ctorVars, trigVars, histVars,
                   panicked>>

\* watcher.go:687-695
CloseLocked(c) ==
    /\ closePc[c] = "lock"
    /\ mu = "free"
    /\ ~panicked
    /\ IF ~running
       THEN /\ closePc' = [closePc EXCEPT ![c] = "noop"]
            /\ UNCHANGED <<running, files, names>>
       ELSE /\ closePc' = [closePc EXCEPT ![c] = "send"]
            /\ running' = FALSE
            /\ files' = EmptyMap
            /\ names' = EmptyMap
    /\ UNCHANGED <<fsVars, cfgVars, wg, closedCh, mu, startPc, startErr, startD,
                   loopVars, pollVars, ctorVars, trigVars, histVars, panicked>>

-----------------------------------------------------------------------------
(* TriggerEvent (watcher.go:478-485).                                      *)
(*                                                                         *)
(* trig.pc is the place of the caller: "idle" (no call yet), "wait" (in    *)
(* w.Wait()), "send" (at w.Event <- Event{...}), "done" (returned).        *)
(* trig.op and trig.file are the arguments, file being <<>> for nil and    *)
(* <<info>> else; trig.got holds what the consumer received from the call. *)

\* watcher.go:481-483: &fileInfo{name: "triggered event", modTime: now},
\* whose Sys() is nil
TriggeredInfo == [ino |-> 0, size |-> 0, mtime |-> 0, mode |-> 0, dir |-> FALSE]

\* the path of a triggered event, "-"
TriggeredPath == <<"-">>

TrigIdle == [pc |-> "idle", op |-> Create, file |-> <<>>, got |-> <<>>]

\* the call
TriggerEvent(eventType, file) ==
    /\ trig.pc = "idle"
    /\ ~panicked
    /\ trig' = [trig EXCEPT !.pc = "wait", !.op = eventType, !.file = file]
    /\ UNCHANGED <<fsVars, running, names, files, cfgVars, wg, closedCh, mu,
                   callVars, loopVars, pollVars, ctorVars, histVars, panicked>>

\* TriggerEventWait without the wait
TriggerEventWait_NoWait ==
    /\ trig.pc = "wait"
    /\ ~panicked
    /\ trig' = [trig EXCEPT !.pc = "send"]
    /\ UNCHANGED <<fsVars, running, names, files, cfgVars, wg, closedCh, mu,
                   callVars, loopVars, pollVars, ctorVars, histVars, panicked>>

\* watcher.go:480 and 682: w.wg.Wait() returns when the counter is zero
TriggerEventWait ==
    /\ trig.pc = "wait"
    /\ wg = 0
    /\ ~panicked
    /\ trig' = [trig EXCEPT !.pc = "send"]
    /\ UNCHANGED <<fsVars, running, names, files, cfgVars, wg, closedCh, mu,
                   callVars, loopVars, pollVars, ctorVars, histVars, panicked>>

\* watcher.go:481-484: the placeholder stands in for a nil file, and the
\* send on w.Event completes when the consumer receives
TriggerEventSend ==
    /\ trig.pc = "send"
    /\ ~panicked
    /\ LET file == IF trig.file = <<>> THEN TriggeredInfo ELSE trig.file[1]
       IN  trig' = [trig EXCEPT !.pc = "done",
                                !.got = Append(@, Event(trig.op, TriggeredPath,
                                                        EmptyPath, file))]
    /\ UNCHANGED <<fsVars, running, names, files, cfgVars, wg, closedCh, mu,
                   callVars, loopVars, pollVars, ctorVars, histVars, panicked>>

-----------------------------------------------------------------------------
(* The file system, changed by its users at any time.                      *)


\* the inode numbers no entry uses
FreeInos == (1..MaxFsIno) \ {fs[p].ino : p \in DOMAIN fs}

\* a file is created empty or with content in an existing directory
FsCreate(path, ino, size) ==
    /\ fsOps < MaxFsOps
    /\ path \notin DOMAIN fs
    /\ Dir(path) \in DOMAIN fs
    /\ ino \in FreeInos
    /\ fs' = MapPut(fs, path, [ino |-> ino, size |-> size, mtime |-> 0,
                              mode |-> 0, dir |-> FALSE])
    /\ fsOps' = fsOps + 1
    /\ UNCHANGED <<running, names, files, cfgVars, wg, closedCh, mu, callVars,
                   loopVars, pollVars, ctorVars, trigVars, histVars, panicked>>

\* an entry is removed, a directory with all it holds
FsRemove(path) ==
    /\ fsOps < MaxFsOps
    /\ path \in DOMAIN fs
    /\ fs' = MapDel(fs, {p \in DOMAIN fs : p = path \/ Dir(p) = path})
    /\ fsOps' = fsOps + 1
    /\ UNCHANGED <<running, names, files, cfgVars, wg, closedCh, mu, callVars,
                   loopVars, pollVars, ctorVars, trigVars, histVars, panicked>>

\* a file is written: its modification time changes and its size may
FsWrite(path, size) ==
    /\ fsOps < MaxFsOps
    /\ path \in DOMAIN fs
    /\ ~fs[path].dir
    /\ fs' = [fs EXCEPT ![path].mtime = 1 - @, ![path].size = size]
    /\ fsOps' = fsOps + 1
    /\ UNCHANGED <<running, names, files, cfgVars, wg, closedCh, mu, callVars,
                   loopVars, pollVars, ctorVars, trigVars, histVars, panicked>>

\* the mode of a file changes
FsChmod(path) ==
    /\ fsOps < MaxFsOps
    /\ path \in DOMAIN fs
    /\ ~fs[path].dir
    /\ fs' = [fs EXCEPT ![path].mode = 1 - @]
    /\ fsOps' = fsOps + 1
    /\ UNCHANGED <<running, names, files, cfgVars, wg, closedCh, mu, callVars,
                   loopVars, pollVars, ctorVars, trigVars, histVars, panicked>>

\* a file is renamed: the same file under a new path
FsRename(old, new) ==
    /\ fsOps < MaxFsOps
    /\ old \in DOMAIN fs
    /\ ~fs[old].dir
    /\ new \notin DOMAIN fs
    /\ Dir(new) \in DOMAIN fs
    /\ fs' = MapPut(MapDel(fs, {old}), new, fs[old])
    /\ fsOps' = fsOps + 1
    /\ UNCHANGED <<running, names, files, cfgVars, wg, closedCh, mu, callVars,
                   loopVars, pollVars, ctorVars, trigVars, histVars, panicked>>

\* the directory /a holding the empty file /a/x
InitFs ==
    /\ fs = [p \in {P_a, P_ax} |->
                IF p = P_a
                THEN [ino |-> 1, size |-> 0, mtime |-> 0, mode |-> 0, dir |-> TRUE]
                ELSE [ino |-> 2, size |-> 0, mtime |-> 0, mode |-> 0, dir |-> FALSE]]
    /\ fsOps = 0

-----------------------------------------------------------------------------
(* Initial values.                                                         *)

Starters == {"s1", "s2"}
Closers == {"c1", "c2"}

\* New() (watcher.go:134-151): the WaitGroup counts 1, the channels are open
\* and unbuffered, the maps are empty (files is set by each Init)
InitWatcher ==
    /\ running = FALSE
    /\ names = EmptyMap
    /\ ignored = {}
    /\ ignoring = {}
    /\ ops = {}
    /\ maxEvents = 0
    /\ ignoreHidden = FALSE
    /\ ffh = <<>>
    /\ wg = 1
    /\ closedCh = FALSE
    /\ mu = "free"

\* no call has been made and no loop runs (fileList, pollPc, startD and
\* ctorPc are set by each Init)
InitIdle ==
    /\ startPc = [s \in Starters |-> "idle"]
    /\ startErr = [s \in Starters |-> "none"]
    /\ closePc = [c \in Closers |-> "idle"]
    /\ numEvents = 0
    /\ cancelClosed = FALSE
    /\ event = <<>>
    /\ rTodo = {}
    /\ rErr = <<>>
    /\ pTodo = {}
    /\ creates = EmptyMap
    /\ removes = EmptyMap
    /\ pend = <<>>
    /\ ren = <<>>
    /\ ctorErr = "none"
    /\ errChanStart = <<>>
    /\ trig = TrigIdle
    /\ passed = <<>>
    /\ fwd = <<>>
    /\ out = <<>>
    /\ capHit = FALSE
    /\ cfgChanged = FALSE
    /\ panicked = FALSE

-----------------------------------------------------------------------------
(* SpecDiff: pollEvents alone, as the function from a stored and a fresh   *)
(* snapshot to the events it sends.  The stored snapshot does not change   *)
(* while it runs and every event is received at once and recorded in out.  *)
(*                                                                         *)
(* pollEvents compares modification times and modes for equality only and  *)
(* only for a path both snapshots hold, so the stored entries all carry    *)
(* time 0 and mode 0; /a/x ranges over every record in the fresh snapshot, *)
(* /a/y and /b/x over the records of time 0 and mode 0; /b/x is never in   *)
(* the stored snapshot.                                                    *)

DiffPaths == {P_ax, P_ay, P_bx}
DiffBaseInfos == {i \in Infos : i.mtime = 0 /\ i.mode = 0 /\ ~i.dir}
DiffFreshInfos == {i \in Infos : ~i.dir}
SnapshotsOf(paths, infos) == UNION {[D -> infos] : D \in SUBSET paths}

DiffInit ==
    /\ InitWatcher
    /\ InitIdle
    /\ fs = EmptyMap
    /\ fsOps = 0
    /\ files \in SnapshotsOf({P_ax, P_ay}, DiffBaseInfos)
    /\ fileList \in {Merge(m1, m2) :
                        m1 \in SnapshotsOf({P_ax}, DiffFreshInfos),
                        m2 \in SnapshotsOf({P_ay, P_bx}, DiffBaseInfos)}
    /\ pollPc = "removes"
    /\ startD = [s \in Starters |-> 0]
    /\ ctorPc = "none"

\* the receiver of evt: takes the event pollEvents is sending
DiffRecv ==
    /\ pend # <<>>
    /\ out' = Append(out, Head(pend))
    /\ pend' = Tail(pend)
    /\ UNCHANGED <<pollPc, pTodo, creates, removes, ren>>
    /\ UNCHANGED <<fsVars, running, names, files, cfgVars, wg, closedCh, mu,
                   callVars, loopVars, ctorVars, trigVars, passed, fwd, capHit,
                   cfgChanged, panicked>>

\* the receiver of done: the goroutine ends
DiffDone ==
    /\ pollPc = "done"
    /\ pollPc' = "exited"
    /\ UNCHANGED <<pTodo, creates, removes, pend, ren>>
    /\ UNCHANGED <<fsVars, running, names, files, cfgVars, wg, closedCh, mu,
                   callVars, loopVars, ctorVars, trigVars, histVars, panicked>>

DiffNext ==
    \/ PollStep
    \/ DiffRecv
    \/ DiffDone

SpecDiff == DiffInit /\ [][DiffNext]_vars

\* how often op is reported for path in the events es
CountOf(es, op, path) ==
    Cardinality({i \in 1..Len(es) : es[i].op = op /\ es[i].path = path})

\* the stand-alone diff has run to its end
DiffFinished == pollPc = "exited"

(* C9: a diff of a snapshot with itself emits no event: whenever the fresh *)
(* snapshot equals the stored one (same paths, same record per path), no   *)
(* event has been sent at any point of the diff.                           *)
C9_SelfDiffEmitsNothing == (fileList = files) => (out = <<>> /\ pend = <<>>)

C9_Witness ==
    /\ DiffFinished
    /\ fileList = files
    /\ DOMAIN files = {P_ax, P_ay}


\* the two snapshots of the diff share no path
DiffDisjoint == (DOMAIN files) \cap (DOMAIN fileList) = {}

\* no stored entry is judged the same file as a fresh entry
DiffNoSameFile ==
    \A p1 \in DOMAIN files : \A p2 \in DOMAIN fileList :
        ~sameFile(files[p1], fileList[p2])

\* the events of a finished diff are one Remove per stored path, one Create
\* per fresh path, a Write for exactly the fresh paths of positive size, and
\* nothing else
DiffRemovesAndCreates ==
    /\ \A p \in DOMAIN files : CountOf(out, Remove, p) = 1
    /\ \A p \in DOMAIN fileList :
          /\ CountOf(out, Create, p) = 1
          /\ CountOf(out, Write, p) = IF fileList[p].size > 0 THEN 1 ELSE 0
    /\ Len(out) = Cardinality(DOMAIN files) + Cardinality(DOMAIN fileList)
                  + Cardinality({p \in DOMAIN fileList : fileList[p].size > 0})

(* C10, as stated: for every stored and fresh snapshot with disjoint path  *)
(* sets, the finished diff yields exactly one Remove per stored path, one  *)
(* Create per fresh path and a Write for exactly the created paths of      *)
(* positive size.                                                          *)
C10_DisjointDiff_Original ==
    (DiffFinished /\ DiffDisjoint) => DiffRemovesAndCreates

(* C10, amended: the same, for disjoint snapshots of which no stored entry *)
(* is the same file as a fresh entry (such a pair is reported as one       *)
(* Rename or Move instead).                                                *)
C10_DisjointDiff ==
    (DiffFinished /\ DiffDisjoint /\ DiffNoSameFile) => DiffRemovesAndCreates

C10_Witness ==
    /\ DiffFinished
    /\ DiffDisjoint
    /\ DiffNoSameFile
    /\ DOMAIN files = {P_ax}
    /\ DOMAIN fileList = {P_ay, P_bx}
    /\ fileList[P_ay].size > 0
    /\ fileList[P_bx].size = 0
    /\ Len(out) = 4

-----------------------------------------------------------------------------
(* Spec: the watcher used through its own interface.  Two callers of Start *)
(* (with a duration of 0 or 1 nanosecond), two callers of Close, a         *)
(* consumer that may or may not receive from w.Event and w.Error, Add of   *)
(* /a before any Close, and a file system that changes.                    *)

Init ==
    /\ InitWatcher
    /\ InitIdle
    /\ InitFs
    /\ files = EmptyMap
    /\ fileList = EmptyMap
    /\ pollPc = "none"
    /\ startD = [s \in Starters |-> 0]
    /\ ctorPc = "none"

\* the steps of Start's loop that need no one else
LoopStep ==
    \/ \E s \in Starters : StartWgDone(s)
    \/ \E s \in Starters : LoopRetrieveBegin(s)
    \/ \E s \in Starters : \E name \in DOMAIN names : LoopList(s, name)
    \/ \E s \in Starters : LoopRetrieveEnd(s)
    \/ \E s \in Starters : \E c \in Closers : LoopRecvClose(s, c)
    \/ \E s \in Starters : LoopClosing(s)
    \/ \E s \in Starters : LoopRecvEvt(s)
    \/ \E s \in Starters : LoopRecvDone(s)
    \/ \E s \in Starters : LoopSwap(s)

\* the consumer receives from w.Event or from w.Error
ConsumerStep ==
    \/ \E s \in Starters : LoopForward(s)
    \/ \E s \in Starters : LoopErrSent(s)

\* the callers are alike: s2 and c2 make their calls after s1 and c1 have
\* made theirs
CallerOrder(pc, x) == x \in {"s2", "c2"} => pc[IF x = "s2" THEN "s1" ELSE "c1"] # "idle"

Next ==
    \/ \E s \in Starters : \E d \in {0, 1} :
           CallerOrder(startPc, s) /\ StartCall(s, d)
    \/ LoopStep
    \/ PollStep
    \/ PollCancel
    \/ ConsumerStep
    \/ \E c \in Closers : CallerOrder(closePc, c) /\ CloseBegin(c)
    \/ \E c \in Closers : CloseLocked(c)
    \/ ((\A c \in Closers : closePc[c] = "idle") /\ Add(P_a))
    \/ \E size \in 0..MaxSize : FsWrite(P_ax, size)
    \/ \E path \in {P_a, P_ax} : FsRemove(path)
    \/ FsRename(P_ax, P_ay)

Spec == Init /\ [][Next]_vars

\* FairSpec: the loop and the goroutine of the cycle go on whenever they
\* can; a Close call that finds the mutex free again and again gets it in the
\* end (sync.Mutex does not starve a waiter), and a select of the loop whose
\* case <-w.close is ready again and again takes it in the end (select picks
\* at random among its ready cases); the consumer of w.Event and w.Error,
\* the users of the file system and the callers owe nothing
FairSpec ==
    /\ Spec
    /\ WF_vars(LoopStep)
    /\ WF_vars(PollStep \/ PollCancel)
    /\ \A c \in Closers : SF_vars(CloseLocked(c))
    /\ SF_vars(\E s \in Starters : \E c \in Closers : LoopRecvClose(s, c))

-----------------------------------------------------------------------------
(* Close and the polling loop.                                             *)

\* Close call c has returned
CloseReturned(c) == closePc[c] \in {"noop", "done"}

\* the loop is blocked sending ErrWatchedFileDeleted on w.Error
ErrorPending == rErr # <<>>

\* C1: every call of Close that has been made returns in the end, also when
\* the loop is blocked in w.Event <- event and nobody receives (left aside: a
\* process that has panicked, and a loop that waits for the consumer of
\* w.Error)
C1_CloseReturns ==
    \A c \in Closers :
        (closePc[c] # "idle" /\ ~panicked)
            ~> (CloseReturned(c) \/ panicked \/ ErrorPending)

\* the loop of caller s is running a step between the top of the for loop
\* and the return of Start
InLoop(s) == startPc[s] \in LoopPcs

\* C2: when a Close call on a running watcher has returned, Start has
\* returned, w.Closed is closed and no loop is in a step
C2_CloseReturnsAfterLoopExit ==
    \A c \in Closers :
        closePc[c] = "done" => (closedCh /\ \A s \in Starters : ~InLoop(s))

\* C3: after a Close call on a running watcher has returned (Add is not
\* called once a Close call is made) the root set and the stored snapshot
\* are empty
C3_EmptyAfterClose ==
    \A c \in Closers :
        closePc[c] = "done" => (names = EmptyMap /\ files = EmptyMap)

-----------------------------------------------------------------------------
(* Start and the Wait gate.                                                *)

\* Wait (watcher.go:682) returns: the WaitGroup counter, set to 1 by New, is 0
WaitReturns == wg = 0

\* the Start call of s has returned an error
StartFailed(s) == startErr[s] \in {ErrDurationTooShort, ErrWatcherRunning}

\* the step is the Start call of s, from the call to its first effect
StartCalled(s) == startPc[s] = "idle" /\ startPc'[s] # "idle"

\* C4: a Start call with a duration below 1ns returns ErrDurationTooShort, a
\* Start call on a running watcher returns ErrWatcherRunning; a call that
\* returns one of the two leaves running, the root set, the stored snapshot,
\* the WaitGroup of Wait and w.Closed as they were, and never runs the loop
C4_FailedStartChangesNothing ==
    /\ [](\A s \in Starters : StartFailed(s) => startPc[s] = "returned")
    /\ [][\A s \in Starters : StartCalled(s) =>
            /\ startD'[s] < 1 => startErr'[s] = ErrDurationTooShort
            /\ (startD'[s] >= 1 /\ running) => startErr'[s] = ErrWatcherRunning
            /\ StartFailed(s)' =>
                  /\ running' = running
                  /\ names' = names
                  /\ files' = files
                  /\ wg' = wg
                  /\ closedCh' = closedCh]_vars

C4_Witness ==
    /\ startPc["s1"] = "select"
    /\ startPc["s2"] = "returned"
    /\ startErr["s2"] = ErrWatcherRunning
    /\ running
    /\ names # EmptyMap
    /\ files # EmptyMap
    /\ WaitReturns

\* C6: once Wait returns it returns in every later state, whatever Start and
\* Close calls follow, and the process goes on
C6_GateStaysOpen == [][WaitReturns => (WaitReturns' /\ ~panicked')]_vars

-----------------------------------------------------------------------------
(* SpecCtor: NewRadovskybwatcherWatcher (part_005:126-183) on the fresh    *)
(* watcher it makes.  The constructor starts two goroutines that each call *)
(* Start(watchGap) and put what it returns on errChanStart (capacity 1),   *)
(* and waits for the first value.  Starter s1 and s2 are the two           *)
(* goroutines, closer c1 is the Close call of the constructor and closer   *)
(* c2 the Close call of the user of the watcher it returns.  No root is    *)
(* added, so every fresh list is empty and pollEvents sends no event.      *)
(*                                                                         *)
(* ctorPc is the constructor's place: "none" (no constructor), "wait" (at  *)
(* <-wrapper.errChanStart), "close" (inside wrapper.Close()), "returned".  *)

\* part_005:137, make(chan error, 1)
ErrChanStartCap == 1

\* part_005:171: the value Start returned is sent on errChanStart
StartSendErr(s) ==
    /\ startPc[s] = "returned"
    /\ ctorPc # "none"
    /\ Len(errChanStart) < ErrChanStartCap
    /\ ~panicked
    /\ errChanStart' = Append(errChanStart, startErr[s])
    /\ startPc' = [startPc EXCEPT ![s] = "sent"]
    /\ UNCHANGED <<fsVars, running, names, files, cfgVars, wg, closedCh, mu,
                   startErr, startD, closePc, loopVars, pollVars, ctorPc,
                   ctorErr, trigVars, histVars, panicked>>

\* part_005:176-182: the first value decides; errors.WithStack keeps nil nil
CtorRecv ==
    /\ ctorPc = "wait"
    /\ errChanStart # <<>>
    /\ ~panicked
    /\ errChanStart' = Tail(errChanStart)
    /\ IF Head(errChanStart) # ErrWatcherRunning
       THEN /\ ctorPc' = "close"
            /\ ctorErr' = Head(errChanStart)
       ELSE /\ ctorPc' = "returned"
            /\ ctorErr' = ErrNil
    /\ UNCHANGED <<fsVars, running, names, files, cfgVars, wg, closedCh, mu,
                   callVars, loopVars, pollVars, trigVars, histVars, panicked>>

\* part_005:177-179: wrapper.Close() (part_005:71-77) has returned
CtorReturn ==
    /\ ctorPc = "close"
    /\ closePc["c1"] \in {"noop", "done"}
    /\ ~panicked
    /\ ctorPc' = "returned"
    /\ UNCHANGED <<fsVars, running, names, files, cfgVars, wg, closedCh, mu,
                   callVars, loopVars, pollVars, ctorErr, errChanStart,
                   trigVars, histVars, panicked>>

\* the durations the constructor is given, in nanoseconds
WatchGaps == {0, 1}

CtorInit ==
    /\ InitWatcher
    /\ InitIdle
    /\ InitFs
    /\ files = EmptyMap
    /\ fileList = EmptyMap
    /\ pollPc = "none"
    /\ \E watchGap \in WatchGaps : startD = [s \in Starters |-> watchGap]
    /\ ctorPc = "wait"

CtorNext ==
    \/ \E s \in Starters : StartCall(s, startD[s])
    \/ \E s \in Starters : StartSendErr(s)
    \/ CtorRecv
    \/ (ctorPc = "close" /\ CloseBegin("c1"))
    \/ CtorReturn
    \/ (ctorPc = "returned" /\ ctorErr = ErrNil /\ CloseBegin("c2"))
    \/ \E c \in Closers : CloseLocked(c)
    \/ \E s \in Starters : StartWgDone(s)
    \/ \E s \in Starters : LoopRetrieveBegin(s)
    \/ \E s \in Starters : LoopRetrieveEnd(s)
    \/ \E s \in Starters : LoopRecvDone(s)
    \/ \E s \in Starters : LoopSwap(s)
    \/ \E s \in Starters : \E c \in Closers : LoopRecvClose(s, c)
    \/ \E s \in Starters : LoopClosing(s)
    \/ PollRemoves
    \/ PollReturn

SpecCtor == CtorInit /\ [][CtorNext]_vars

\* the Start call of s got past the tests of running
Entered(s) ==
    \/ startPc[s] \in LoopPcs \cup {"wgDone", "panic"}
    \/ startErr[s] = ErrNil

\* the two Start calls of the constructor are made with a valid duration
ValidGap == \A s \in Starters : startD[s] >= 1

\* C5: of the two Start calls the constructor races with a valid duration on
\* its fresh watcher, one gets past the test of running and the other
\* returns ErrWatcherRunning; at no time are two loops running; the
\* constructor returns a nil error
C5_OneLoopOfTwoStarts ==
    /\ Cardinality({s \in Starters : InLoop(s) \/ startPc[s] = "wgDone"}) <= 1
    /\ ~panicked
    /\ (ValidGap /\ \A s \in Starters : startPc[s] # "idle") =>
           \E s, t \in Starters :
              /\ s # t
              /\ Entered(s)
              /\ startErr[t] = ErrWatcherRunning
    /\ (ValidGap /\ ctorPc = "returned") => ctorErr = ErrNil

C5_Witness ==
    /\ ValidGap
    /\ ctorPc = "returned"
    /\ ctorErr = ErrNil
    /\ \E s, t \in Starters :
          /\ startPc[s] = "select"
          /\ startPc[t] = "sent"
          /\ startErr[t] = ErrWatcherRunning

-----------------------------------------------------------------------------
(* SpecCap: one Start call on a watcher that is never closed, with the cap *)
(* of SetMaxEvents and the filter of FilterOps set at any time, before or  *)
(* while the loop runs.  The root /a is added before Start is called and   *)
(* is never removed, so no error is sent on w.Error.                       *)

\* the arguments given to SetMaxEvents
CapDeltas == {-1, 1, 2}

\* the arguments given to FilterOps
CapOpLists == {{Write}, {Create, Chmod}}

CapNext ==
    \/ (startPc["s1"] = "idle" /\ Add(P_a))
    \/ \E delta \in CapDeltas : SetMaxEvents(delta)
    \/ \E opList \in CapOpLists : FilterOps(opList)
    \/ StartCall("s1", 1)
    \/ StartWgDone("s1")
    \/ LoopRetrieveBegin("s1")
    \/ \E name \in DOMAIN names : LoopList("s1", name)
    \/ LoopRetrieveEnd("s1")
    \/ LoopRecvEvt("s1")
    \/ LoopForward("s1")
    \/ LoopRecvDone("s1")
    \/ LoopSwap("s1")
    \/ PollStep
    \/ PollCancel
    \/ \E size \in 0..MaxSize : FsWrite(P_ax, size)
    \/ FsChmod(P_ax)
    \/ FsRemove(P_ax)
    \/ \E ino \in 1..MaxFsIno : \E size \in 0..MaxSize :
           FsCreate(P_ay, ino, size)

SpecCap == Init /\ [][CapNext]_vars

\* a loop is inside a cycle, between the start of pollEvents and the swap of
\* the snapshots, and no setter has been called since the cycle began
StableCycle ==
    /\ ~cfgChanged
    /\ \E s \in Starters : startPc[s] \in {"select", "forward", "swap"}

\* the event that made the count exceed the cap, if any
CapEvent == IF capHit THEN <<passed[Len(passed)]>> ELSE <<>>

\* C7: in a cycle the events forwarded on w.Event (the one being sent
\* included) are the first of those that passed the op filter, in order; the
\* count is the number of those that passed and starts at 0; the cycle is
\* ended early when and only when the cap is positive and one more event
\* than the cap has passed, and then exactly as many as the cap are
\* forwarded; with a cap of 0 or less no cycle is ended early; the swap at
\* the end of a cycle makes the fresh list the stored snapshot, also after
\* the cap ended the cycle
C7_CapForwardsFirstN ==
    /\ [](StableCycle =>
            /\ numEvents = Len(passed)
            /\ passed = fwd \o event \o CapEvent
            /\ capHit <=> (maxEvents > 0 /\ Len(passed) > maxEvents)
            /\ capHit => (Len(fwd) = maxEvents /\ event = <<>> /\ cancelClosed)
            /\ pollPc = "removes" => numEvents = 0)
    /\ [][\A s \in Starters :
            (startPc[s] = "swap" /\ startPc'[s] = "retrieve")
                => files' = fileList]_vars

C7_Witness ==
    /\ StableCycle
    /\ maxEvents = 1
    /\ capHit
    /\ Len(fwd) = 1
    /\ pend # <<>>
    /\ startPc["s1"] = "swap"

\* the events of a sequence whose op the filter lets through
OpsPassing(es) == {i \in 1..Len(es) : es[i].op \in ops}

\* C8: with a non-empty op list, every event forwarded on w.Event (the one
\* being sent included) has an op of the list, and the count compared with
\* the cap is the number of received events whose op is in the list
C8_FilterOpsForwardsListed ==
    (StableCycle /\ ops # {}) =>
        /\ OpsPassing(fwd) = 1..Len(fwd)
        /\ OpsPassing(event) = 1..Len(event)
        /\ numEvents = Cardinality(OpsPassing(out))

C8_Witness ==
    /\ StableCycle
    /\ ops = {Write}
    /\ maxEvents = 1
    /\ Len(out) = 2
    /\ Len(fwd) = 1
    /\ ~capHit
    /\ startPc["s1"] = "swap"

-----------------------------------------------------------------------------
(* The rename and move inference of a stand-alone diff.                    *)

\* the paths of the stored snapshot the fresh one does not hold, and the
\* paths of the fresh snapshot the stored one does not hold
DiffRemoved == (DOMAIN files) \ (DOMAIN fileList)
DiffCreated == (DOMAIN fileList) \ (DOMAIN files)

\* r is removed, c is created and the two entries are judged the same file
DiffSamePair(r, c) ==
    /\ r \in DiffRemoved
    /\ c \in DiffCreated
    /\ sameFile(files[r], fileList[c])

\* the events sent for the pair: Path is the created and OldPath the removed
\* path
DiffPairEvents(r, c) ==
    {i \in 1..Len(out) : out[i].path = c /\ out[i].oldPath = r}

\* the pair is reported by one event, a Rename when the two paths have the
\* same parent directory and a Move otherwise, and there is no Create and no
\* Remove of either path
DiffPairReported(r, c) ==
    /\ Cardinality(DiffPairEvents(r, c)) = 1
    /\ \A i \in DiffPairEvents(r, c) :
          out[i].op = IF Dir(r) = Dir(c) THEN Rename ELSE Move
    /\ \A p \in {r, c} : CountOf(out, Create, p) = 0 /\ CountOf(out, Remove, p) = 0

(* C11, as stated: for every removed and created path of a finished diff   *)
(* that are judged the same file, the pair is reported by exactly one      *)
(* event, Rename or Move by the parent directories, with no Create and no  *)
(* Remove of either path.                                                  *)
C11_RenamePair_Original ==
    DiffFinished =>
        \A r \in DOMAIN files : \A c \in DOMAIN fileList :
            DiffSamePair(r, c) => DiffPairReported(r, c)

\* c is the same file as no removed path but r
DiffOnlyRemoved(r, c) ==
    \A r2 \in DiffRemoved : sameFile(files[r2], fileList[c]) => r2 = r

(* C11, amended: the same, for a created path that is judged the same file *)
(* as that removed path only (of two removed paths that are the same file  *)
(* as one created path, one is paired and the other is reported removed).  *)
C11_RenamePair ==
    DiffFinished =>
        \A r \in DOMAIN files : \A c \in DOMAIN fileList :
            (DiffSamePair(r, c) /\ DiffOnlyRemoved(r, c))
                => DiffPairReported(r, c)

C11_Witness ==
    /\ DiffFinished
    /\ DOMAIN files = {P_ax, P_ay}
    /\ DOMAIN fileList = {P_ay, P_bx}
    /\ DiffSamePair(P_ax, P_bx)
    /\ Len(out) = 1
    /\ out[1].op = Move

-----------------------------------------------------------------------------
(* The creates of a stand-alone diff.                                      *)

\* c is created and no Rename or Move reports it
DiffUnpaired(c) ==
    /\ c \in DiffCreated
    /\ CountOf(out, Rename, c) = 0
    /\ CountOf(out, Move, c) = 0

\* the places of the Create events of c among the events sent
DiffCreatesOf(c) == {i \in 1..Len(out) : out[i].op = Create /\ out[i].path = c}

(* C12: in a finished diff every created path that is not paired as a      *)
(* rename or move has one Create event; when the size of the new entry is  *)
(* positive the event sent right after it is a Write of the same path, and *)
(* when the size is zero there is no Write of that path at all.            *)
C12_CreateThenWrite ==
    DiffFinished =>
        \A c \in DOMAIN fileList : DiffUnpaired(c) =>
            /\ Cardinality(DiffCreatesOf(c)) = 1
            /\ \A i \in DiffCreatesOf(c) :
                  IF fileList[c].size > 0
                  THEN /\ i < Len(out)
                       /\ out[i + 1].op = Write
                       /\ out[i + 1].path = c
                       /\ CountOf(out, Write, c) = 1
                  ELSE CountOf(out, Write, c) = 0

C12_Witness ==
    /\ DiffFinished
    /\ files = EmptyMap
    /\ DOMAIN fileList = {P_ay, P_bx}
    /\ fileList[P_ay].size > 0
    /\ fileList[P_bx].size = 0
    /\ Len(out) = 3
    /\ out[1].op = Create
    /\ out[1].path = P_bx
    /\ out[3].op = Write

-----------------------------------------------------------------------------
(* The events delivered on w.Event.                                        *)

\* C13: every event the consumer has received from w.Event in the running
\* cycle has an empty OldPath unless its op is Rename or Move
C13_OldPathOnlyForRenames ==
    \A i \in 1..Len(fwd) :
        fwd[i].op \notin {Rename, Move} => fwd[i].oldPath = EmptyPath

-----------------------------------------------------------------------------
(* SpecSet: the calls that change the watch set, the ignore list, the      *)
(* hidden-file switch and the filter hooks, made in any order on a watcher *)
(* that is not started, over a file system that does not change: the       *)
(* directory /a holding the files x and dc, the hidden file .h and the     *)
(* directory d with the file z.                                            *)

SetFsDirs == {P_a, P_ad}

SetFsInos ==
    (P_a :> 1) @@ (P_ax :> 2) @@ (P_ah :> 3) @@ (P_ad :> 4) @@ (P_adz :> 5)
    @@ (P_adc :> 6)

SetFs ==
    [p \in DOMAIN SetFsInos |->
        [ino |-> SetFsInos[p], size |-> 0, mtime |-> 0, mode |-> 0,
         dir |-> p \in SetFsDirs]]

SetInit ==
    /\ InitWatcher
    /\ InitIdle
    /\ fs = SetFs
    /\ fsOps = 0
    /\ files = EmptyMap
    /\ fileList = EmptyMap
    /\ pollPc = "none"
    /\ startD = [s \in Starters |-> 0]
    /\ ctorPc = "none"

\* the names given to Add and AddRecursive, to Remove and RemoveRecursive,
\* and to Ignore, and the hooks given to AddFilterHook
SetAddNames == {P_a, P_ad, P_adz, P_ah}
SetRemoveNames == {P_a, P_ad}
SetIgnorePaths == {P_ad, P_ah}
SetHooks == {{P_ad}, {P_ax}, {P_a}}

SetNext ==
    \/ \E name \in SetAddNames : Add(name)
    \/ \E name \in SetAddNames : AddRecursive(name)
    \/ \E name \in SetRemoveNames : Remove_(name)
    \/ \E name \in SetRemoveNames : RemoveRecursive(name)
    \/ \E path \in SetIgnorePaths : IgnoreRemove(path)
    \/ \E path \in SetIgnorePaths : IgnoreMark(path)
    \/ \E skips \in SetHooks : AddFilterHook(skips)
    \/ \E ignore \in BOOLEAN : IgnoreHiddenFiles(ignore)

SpecSet == SetInit /\ [][SetNext]_vars

\* C15: a step that is Add(name) or AddRecursive(name) for a name on the
\* ignore list, or hidden while hidden files are ignored, changes neither
\* the root set nor the stored snapshot
C15_AddIgnoredIsNoOp ==
    [][\A name \in SetAddNames :
          (IgnoredOrHidden(name) /\ (Add(name) \/ AddRecursive(name)))
              => (names' = names /\ files' = files)]_vars

\* p is d or lies under the directory d
Under(p, d) == p = d \/ HasPrefix(p, d \o <<Sep>>)

\* C16: in the list listRecursive builds for a root, a directory a hook
\* vetoes is absent together with everything under it, and a file a hook
\* vetoes is absent
C16_HookVetoPrunes ==
    \A name \in SetAddNames : \A d \in DOMAIN fs :
        HookSkips(d) =>
            \A p \in DOMAIN listRecursive(name).list :
                IF fs[d].dir THEN ~Under(p, d) ELSE p # d

\* C18: a step that is Remove(name) or RemoveRecursive(name) deletes name
\* from the root set; Remove takes from the stored snapshot name and the
\* entries whose parent directory is name, and nothing else; RemoveRecursive
\* takes name and the entries whose path has the prefix name, and nothing
\* else
C18_RemovePurges ==
    [][\A name \in SetRemoveNames :
          /\ Remove_(name) =>
                /\ names' = MapDel(names, {name})
                /\ files' = MapDel(files, {p \in DOMAIN files :
                                              p = name \/ Dir(p) = name})
          /\ RemoveRecursive(name) =>
                /\ names' = MapDel(names, {name})
                /\ files' = MapDel(files, {p \in DOMAIN files :
                                              HasPrefix(p, name)})]_vars

-----------------------------------------------------------------------------
(* SpecLoop: one Start, one Close and one Ignore of /a around the polling  *)
(* loop.  The roots /a (a directory holding the file /a/x) and /b (an      *)
(* empty directory) are added before Start; while the loop runs /b may be  *)
(* removed, /a/x written or renamed, and the consumer may or may not       *)
(* receive from w.Event and w.Error.                                       *)

LoopFs ==
    [p \in {P_a, P_ax, P_b} |->
        [ino |-> IF p = P_a THEN 1 ELSE IF p = P_ax THEN 2 ELSE 3,
         size |-> 0, mtime |-> 0, mode |-> 0, dir |-> p # P_ax]]

LoopInit ==
    /\ InitWatcher
    /\ InitIdle
    /\ fs = LoopFs
    /\ fsOps = 0
    /\ files = EmptyMap
    /\ fileList = EmptyMap
    /\ pollPc = "none"
    /\ startD = [s \in Starters |-> 0]
    /\ ctorPc = "none"

LoopNext ==
    \/ \E name \in {P_a, P_b} :
           startPc["s1"] = "idle" /\ name \notin DOMAIN names /\ Add(name)
    \/ (DOMAIN names = {P_a, P_b} /\ StartCall("s1", 1))
    \/ LoopStep
    \/ PollStep
    \/ PollCancel
    \/ ConsumerStep
    \/ (startPc["s1"] # "idle" /\ CloseBegin("c1"))
    \/ CloseLocked("c1")
    \/ (startPc["s1"] # "idle" /\ P_a \notin ignored /\ IgnoreRemove(P_a))
    \/ IgnoreMark(P_a)
    \/ FsRemove(P_b)
    \/ \E size \in 0..MaxSize : FsWrite(P_ax, size)
    \/ FsRename(P_ax, P_ay)

SpecLoop == LoopInit /\ [][LoopNext]_vars

\* C14: once Ignore(p) has returned (p is in w.ignored), the stored
\* snapshot holds neither p nor any entry under p, in every later state
C14_IgnoredStaysOut ==
    \A p \in ignored : \A q \in DOMAIN files : ~Under(q, p)

\* C17: a root that does not exist when the cycle lists it makes the loop
\* send ErrWatchedFileDeleted on w.Error; once the error is received the
\* root is out of the root set, the listing goes on with the roots left
\* (every root that exists is in the fresh list when the listing ends), no
\* root out of the root set is listed, and Start returns only after Close
C17_DeletedRootDropped ==
    /\ [][\A name \in DOMAIN names :
             (LoopList("s1", name) /\ name \notin DOMAIN fs) => rErr' = <<name>>]_vars
    /\ [][LoopErrSent("s1") => /\ rErr[1] \notin DOMAIN names'
                               /\ rTodo' = rTodo
                               /\ startPc'["s1"] = "listing"]_vars
    /\ [](startPc["s1"] = "listing" => rTodo \subseteq DOMAIN names)
    /\ [](startPc["s1"] = "select" =>
             \A name \in DOMAIN names : name \in DOMAIN fs => name \in DOMAIN fileList)
    /\ [](startPc["s1"] \in {"returned", "panic"} => closePc["c1"] = "done")

\* /b was removed and has been deregistered by the loop, /a has been listed
\* in a cycle that holds no entry of /b, and the loop is in its select
C17_Witness ==
    /\ startPc["s1"] = "select"
    /\ P_b \notin DOMAIN fs
    /\ DOMAIN names = {P_a}
    /\ P_a \in DOMAIN fileList
    /\ P_b \notin DOMAIN fileList
    /\ P_b \notin DOMAIN files

-----------------------------------------------------------------------------
(* SpecTrig: one call of TriggerEvent next to two callers of Start (with   *)
(* a duration of 0 or 1 nanosecond) on a watcher that is never closed.     *)
(* The root /a is added before any Start, /a/x is written while the loop   *)
(* runs, and the consumer may or may not receive from w.Event.             *)

\* the arguments given to TriggerEvent
TrigOps == {Write, Move}
TrigFiles == {<<>>, <<[ino |-> 2, size |-> 1, mtime |-> 1, mode |-> 0, dir |-> FALSE]>>}

TrigNext ==
    \/ ((\A s \in Starters : startPc[s] = "idle") /\ Add(P_a))
    \/ \E s \in Starters : \E d \in {0, 1} :
           CallerOrder(startPc, s) /\ StartCall(s, d)
    \/ \E s \in Starters : StartWgDone(s)
    \/ \E s \in Starters : LoopRetrieveBegin(s)
    \/ \E s \in Starters : \E name \in DOMAIN names : LoopList(s, name)
    \/ \E s \in Starters : LoopRetrieveEnd(s)
    \/ \E s \in Starters : LoopRecvEvt(s)
    \/ \E s \in Starters : LoopForward(s)
    \/ \E s \in Starters : LoopRecvDone(s)
    \/ \E s \in Starters : LoopSwap(s)
    \/ PollRemoves
    \/ \E path \in AllPaths : PollVisit(path)
    \/ PollReturn
    \/ \E eventType \in TrigOps : \E file \in TrigFiles : TriggerEvent(eventType, file)
    \/ TriggerEventWait
    \/ TriggerEventSend
    \/ \E size \in 0..MaxSize : FsWrite(P_ax, size)

SpecTrig == Init /\ [][TrigNext]_vars

\* C19: the send of TriggerEvent on w.Event is not reached before a Start
\* call has passed its two tests; the consumer receives from the call nothing
\* before its send and exactly one event after it, with the given op and
\* with the given record or, for a nil record, the placeholder; the event
\* is not counted by the loop and is not one of the goroutine's sends
C19_TriggerAfterStart ==
    /\ [](trig.pc \in {"send", "done"} => \E s \in Starters : Entered(s))
    /\ [](trig.got = IF trig.pc = "done"
                     THEN <<Event(trig.op, TriggeredPath, EmptyPath,
                                  IF trig.file = <<>> THEN TriggeredInfo
                                                      ELSE trig.file[1])>>
                     ELSE <<>>)
    /\ [][TriggerEventSend => (numEvents' = numEvents /\ pend' = pend /\ out' = out)]_vars

\* a Start call has failed, the next one runs the loop, and a TriggerEvent
\* call without a record has delivered its event
C19_Witness ==
    /\ startErr["s1"] = ErrDurationTooShort
    /\ startPc["s2"] \in LoopPcs
    /\ trig.pc = "done"
    /\ trig.file = <<>>
    /\ trig.op = Move
    /\ trig.got[1].info = TriggeredInfo

-----------------------------------------------------------------------------
(* SpecWatch: one Start call on a watcher with no cap and no op filter     *)
(* that is never closed.  The root /a is added before Start and the watch  *)
(* set is left alone afterwards; the entries of /a are created, removed,   *)
(* written, renamed and have their mode changed at any time.               *)

WatchNext ==
    \/ (startPc["s1"] = "idle" /\ Add(P_a))
    \/ (P_a \in DOMAIN names /\ StartCall("s1", 1))
    \/ StartWgDone("s1")
    \/ LoopRetrieveBegin("s1")
    \/ \E name \in DOMAIN names : LoopList("s1", name)
    \/ LoopRetrieveEnd("s1")
    \/ LoopRecvEvt("s1")
    \/ LoopForward("s1")
    \/ LoopRecvDone("s1")
    \/ LoopSwap("s1")
    \/ PollStep
    \/ \E size \in 0..MaxSize : FsWrite(P_ax, size)
    \/ FsChmod(P_ax)
    \/ FsRemove(P_ax)
    \/ FsRename(P_ax, P_ay)
    \/ \E ino \in 1..MaxFsIno : \E size \in 0..MaxSize :
           FsCreate(P_ay, ino, size)

SpecWatch == Init /\ [][WatchNext]_vars

\* the loop and the goroutine of the cycle go on whenever they can, and the
\* consumer receives every event the loop sends on w.Event
FairWatch ==
    /\ SpecWatch
    /\ WF_vars(StartWgDone("s1") \/ LoopRetrieveBegin("s1")
               \/ (\E name \in DOMAIN names : LoopList("s1", name))
               \/ LoopRetrieveEnd("s1") \/ LoopRecvEvt("s1")
               \/ LoopRecvDone("s1") \/ LoopSwap("s1"))
    /\ WF_vars(PollStep)
    /\ WF_vars(LoopForward("s1"))

\* the goroutine of the cycle has ended and the loop is about to swap the
\* snapshots: files is the stored snapshot the cycle compared with and
\* fileList the fresh one
CycleOver == startPc["s1"] = "swap" /\ pollPc = "exited"

\* the consumer received, in this cycle, an event with one of the ops
Reported(opSet, path) ==
    \E i \in 1..Len(fwd) : fwd[i].op \in opSet /\ fwd[i].path = path

\* the same for the old path of a rename or a move
ReportedOld(path) ==
    \E i \in 1..Len(fwd) : fwd[i].op \in {Rename, Move} /\ fwd[i].oldPath = path

\* every difference between the stored and the fresh snapshot has its event
ChangesReported ==
    /\ \A p \in (DOMAIN fileList) \ (DOMAIN files) :
           Reported({Create, Rename, Move}, p)
    /\ \A p \in (DOMAIN files) \ (DOMAIN fileList) :
           Reported({Remove}, p) \/ ReportedOld(p)
    /\ \A p \in (DOMAIN files) \cap (DOMAIN fileList) :
           /\ (files[p].mtime # fileList[p].mtime \/ files[p].size # fileList[p].size)
                  => Reported({Write}, p)
           /\ files[p].mode # fileList[p].mode => Reported({Chmod}, p)

\* C20: with no cap, no op filter, a consumer that receives and a watch set
\* left alone, every cycle comes to its end, and by then every entry of the
\* root that the fresh list shows created, removed, written or changed in
\* mode since the stored snapshot has been reported by an event of the cycle
C20_ChangesReportedNextCycle ==
    /\ [](CycleOver => ChangesReported)
    /\ (startPc["s1"] = "select") ~> CycleOver

\* a cycle has ended in which /a/x was both written and changed in mode,
\* and the consumer received the Write and the Chmod
C20_Witness ==
    /\ CycleOver
    /\ Reported({Write}, P_ax)
    /\ Reported({Chmod}, P_ax)
    /\ maxEvents = 0
    /\ ops = {}

\* C21: while the signal of a Close call that has cleared the watch set
\* waits on w.close, the loop takes no event from evt to forward it on
\* w.Event
C21_CloseBeatsEvent ==
    [][(\E c \in Closers : closePc[c] = "send")
          => \A s \in Starters : ~(LoopRecvEvt(s) /\ startPc'[s] = "forward")]_vars

\* how many Rename or Move events of es name path as their old path, and
\* how many as their path
PairingsAsOld(es, path) ==
    Cardinality({i \in 1..Len(es) : es[i].op \in {Rename, Move} /\ es[i].oldPath = path})

PairingsAsNew(es, path) ==
    Cardinality({i \in 1..Len(es) : es[i].op \in {Rename, Move} /\ es[i].path = path})

\* C22: in one diff every removed path is the old path of at most one
\* Rename or Move event and every created path the path of at most one
C22_OnePairingPerPath ==
    \A p \in DiffPaths : PairingsAsOld(out, p) <= 1 /\ PairingsAsNew(out, p) <= 1

-----------------------------------------------------------------------------
(* SpecOrder: one cycle of a running loop from its select to its swap,     *)
(* over stored and fresh snapshots as in SpecDiff, each with the two       *)
(* roots /a and /b added to it.  The consumer may or may not receive from  *)
(* w.Event; nothing else runs.                                             *)

\* the records of the roots /a and /b, the same in both snapshots
OrderRoots ==
    [p \in {P_a, P_b} |->
        [ino |-> 0, size |-> 0, mtime |-> 0, mode |-> 0, dir |-> TRUE]]

\* the records of the snapshots: the stored entries are empty files of time
\* 0 and mode 0, the fresh /a/x is an empty file of any time and mode, the
\* fresh /a/y and /b/x are files of time 0 and mode 0, empty or not
OrderStoredInfos == {i \in DiffBaseInfos : i.size = 0}
OrderFreshInfos == {i \in DiffFreshInfos : i.size = 0}
OrderCreatedInfos == {i \in DiffBaseInfos : i.size \in {0, MaxSize}}

OrderInit ==
    /\ running = TRUE
    /\ names = [p \in {P_a, P_b} |-> FALSE]
    /\ ignored = {}
    /\ ignoring = {}
    /\ ops = {}
    /\ maxEvents = 0
    /\ ignoreHidden = FALSE
    /\ ffh = <<>>
    /\ wg = 0
    /\ closedCh = FALSE
    /\ mu = "free"
    /\ startPc = [s \in Starters |-> IF s = "s1" THEN "select" ELSE "idle"]
    /\ startErr = [s \in Starters |-> "none"]
    /\ startD = [s \in Starters |-> 1]
    /\ closePc = [c \in Closers |-> "idle"]
    /\ numEvents = 0
    /\ cancelClosed = FALSE
    /\ event = <<>>
    /\ rTodo = {}
    /\ rErr = <<>>
    /\ pTodo = {}
    /\ creates = EmptyMap
    /\ removes = EmptyMap
    /\ pend = <<>>
    /\ ren = <<>>
    /\ ctorPc = "none"
    /\ ctorErr = "none"
    /\ errChanStart = <<>>
    /\ trig = TrigIdle
    /\ passed = <<>>
    /\ fwd = <<>>
    /\ out = <<>>
    /\ capHit = FALSE
    /\ cfgChanged = FALSE
    /\ panicked = FALSE
    /\ fs = EmptyMap
    /\ fsOps = 0
    /\ files \in {Merge(OrderRoots, m) : m \in SnapshotsOf({P_ax, P_ay}, OrderStoredInfos)}
    /\ fileList \in {Merge(OrderRoots, Merge(m1, m2)) :
                        m1 \in SnapshotsOf({P_ax}, OrderFreshInfos),
                        m2 \in SnapshotsOf({P_ay, P_bx}, OrderCreatedInfos)}
    /\ pollPc = "removes"

OrderNext ==
    \/ PollStep
    \/ LoopRecvEvt("s1")
    \/ LoopForward("s1")
    \/ LoopRecvDone("s1")
    \/ LoopSwap("s1")

SpecOrder == OrderInit /\ [][OrderNext]_vars

\* the phase of pollEvents an event is of: 1 for the Write and Chmod of a
\* path the stored snapshot holds, 2 for Rename and Move, 3 for Create and
\* the Write of a path the stored snapshot does not hold, 4 for Remove
EventPhase(e) ==
    IF e.op \in {Rename, Move} THEN 2
    ELSE IF e.op = Create THEN 3
    ELSE IF e.op = Remove THEN 4
    ELSE IF e.path \in DOMAIN files THEN 1 ELSE 3

\* C23: until the swap, the events the consumer has received from w.Event
\* in the cycle are in the order of the phases, and the Write of a path
\* that is not in the stored snapshot comes right after its Create
C23_PhaseOrder ==
    startPc["s1"] \in {"select", "forward", "swap"} =>
        /\ \A i, j \in 1..Len(fwd) :
               i < j => EventPhase(fwd[i]) <= EventPhase(fwd[j])
        /\ \A j \in 1..Len(fwd) :
               (fwd[j].op = Write /\ fwd[j].path \notin DOMAIN files) =>
                   /\ j > 1
                   /\ fwd[j - 1].op = Create
                   /\ fwd[j - 1].path = fwd[j].path

\* the cycle is over and the consumer has received the Write of /a/x, then
\* the Create of /b/x, then the Remove of /a/y
C23_Witness ==
    /\ startPc["s1"] = "swap"
    /\ Len(fwd) = 3
    /\ fwd[1].op = Write /\ fwd[1].path = P_ax
    /\ fwd[2].op = Create /\ fwd[2].path = P_bx
    /\ fwd[3].op = Remove /\ fwd[3].path = P_ay

\* path p is an ignored path or lies under one
UnderIgnored(q) == \E p \in ignored : Under(q, p)

\* C24: no entry that Add or AddRecursive merges into the stored snapshot,
\* and no entry that a cycle lists for a registered root, is an ignored
\* path or lies under an ignored directory
C24_NoIgnoredListed ==
    /\ [][\A name \in SetAddNames :
             (Add(name) \/ AddRecursive(name)) =>
                 \A q \in (DOMAIN files') \ (DOMAIN files) : ~UnderIgnored(q)]_vars
    /\ [](\A name \in DOMAIN names :
             \A q \in DOMAIN (IF names[name] THEN listRecursive(name)
                                             ELSE list(name)).list : ~UnderIgnored(q))

\* C25: the loop does not hold the mutex while it lists the roots or while
\* its send of an error on w.Error is pending
C25_ListingUnlocked ==
    \A s \in Starters : startPc[s] = "listing" => mu # s

\* the goroutine of a cycle has not ended and no loop is in that cycle any
\* more: nothing receives from the cycle's evt and done channels again
PollOrphaned ==
    /\ pollPc \in {"removes", "run", "done", "leaked"}
    /\ \A s \in Starters : startPc[s] \notin {"select", "forward"}

\* C28: the goroutine of a cycle is never left behind by the loop, so its
\* send on done is received and it ends
C28_PollGoroutineEnds == ~PollOrphaned

-----------------------------------------------------------------------------
(* SpecRace: Add of the root /b while the loop runs.  The root /a is added *)
(* and the cap may be set to 1 before the one Start call; the watcher is   *)
(* never closed; /a/x is written and has its mode changed, and no entry is *)
(* created or removed on disk.                                             *)

RaceNext ==
    \/ (startPc["s1"] = "idle" /\ Add(P_a))
    \/ (startPc["s1"] = "idle" /\ maxEvents = 0 /\ SetMaxEvents(1))
    \/ (P_a \in DOMAIN names /\ StartCall("s1", 1))
    \/ StartWgDone("s1")
    \/ LoopRetrieveBegin("s1")
    \/ \E name \in DOMAIN names : LoopList("s1", name)
    \/ LoopRetrieveEnd("s1")
    \/ LoopRecvEvt("s1")
    \/ LoopForward("s1")
    \/ LoopRecvDone("s1")
    \/ LoopSwap("s1")
    \/ PollRemoves
    \/ \E path \in AllPaths : PollVisit(path)
    \/ \E path \in AllPaths : PollCreate(path)
    \/ \E path \in AllPaths : PollRemove(path)
    \/ PollReturn
    \/ PollCancel
    \/ (startPc["s1"] # "idle" /\ P_b \notin DOMAIN names /\ ~MapShared /\ Add(P_b))
    \/ (P_b \notin DOMAIN names /\ AddShared(P_b))
    \/ \E size \in 0..MaxSize : FsWrite(P_ax, size)
    \/ FsChmod(P_ax)

SpecRace == LoopInit /\ [][RaceNext]_vars

\* C26: with nothing removed from the watch set or from the disk, the swap
\* of a cycle drops no entry of the stored snapshot, so what an Add merged
\* during the cycle stays; and the consumer never receives a Create
C26_AddSurvivesSwap ==
    /\ [][LoopSwap("s1") => (DOMAIN files \subseteq DOMAIN files')]_vars
    /\ [](\A i \in 1..Len(fwd) : fwd[i].op # Create)

\* C27: while the loop is in the cycle, each iteration of the range over
\* the fresh list reads a stored snapshot that has, outside the fresh list,
\* the very paths the removal pass found
C27_OneStoredSnapshot ==
    [][\A path \in AllPaths :
          (PollVisit(path) /\ startPc["s1"] \in {"select", "forward"})
              => removes = PollRemovesOf(files, fileList)]_vars

\* C29: once the loop has installed the fresh map as the stored snapshot,
\* the goroutine of that cycle is not in its range over that map
C29_NoRangeAfterSwap ==
    (startPc["s1"] = "retrieve" /\ pollPc = "run") => pTodo = {}

\* C30: RemoveRecursive(name), also as the first half of Ignore(name),
\* leaves in the stored snapshot, with its record, every entry that is
\* neither name nor inside the directory name
C30_RemoveRecursiveFrame ==
    [][\A name \in SetRemoveNames \cup SetIgnorePaths :
          (RemoveRecursive(name) \/ IgnoreRemove(name)) =>
              \A q \in DOMAIN files :
                  ~Under(q, name) => (q \in DOMAIN files' /\ files'[q] = files[q])]_vars

-----------------------------------------------------------------------------
(* The event wrapper of package watcher (part_006).  The wrapper's Op is   *)
(* fsnotify.Op, a set of flags kept in the bits of an integer: it is the   *)
(* set of its flags here, the zero Op being the empty set.                 *)

WrapCreate == {"fsnotify.Create"}
WrapWrite == {"fsnotify.Write"}
WrapRemove == {"fsnotify.Remove"}
WrapRename == {"fsnotify.Rename"}
WrapChmod == {"fsnotify.Chmod"}

\* the ops package watcher names (part_006:14-33)
WrapOps == {WrapCreate, WrapWrite, WrapRemove, WrapRename, WrapChmod}

\* the zero value of Op, which a Go map gives for a key it does not hold
ZeroOp == {}

\* _mapRadovskybwatcherOp[op] (part_006:35-41)
mapRadovskybwatcherOp(op) ==
    IF op = Create THEN WrapCreate
    ELSE IF op = Write THEN WrapWrite
    ELSE IF op = Remove THEN WrapRemove
    ELSE IF op = Rename THEN WrapRename
    ELSE IF op = Chmod THEN WrapChmod
    ELSE ZeroOp

\* newRadovskybwatcherEventWrapper (part_006:75-77)
newRadovskybwatcherEventWrapper(e) ==
    [e |-> e, wrapOp |-> mapRadovskybwatcherOp(e.op)]

\* radovskybwatcherEventWrapper.Has (part_006:70): w.wrapOp.Has(op), every
\* flag of op is a flag of wrapOp
Has(w, op) == op \subseteq w.wrapOp

\* C31: every event the consumer of w.Event receives from the polling core
\* is wrapped with a non-zero Op, and Has is true of the wrapped event for
\* one of the ops package watcher names
C31_EveryOpMapped ==
    \A i \in 1..Len(fwd) :
        LET w == newRadovskybwatcherEventWrapper(fwd[i])
        IN  /\ w.wrapOp # ZeroOp
            /\ \E op \in WrapOps : Has(w, op)

====
